---------------------------- MODULE Spec2Model ----------------------------
(***************************************************************************)
(* A model of searchbetter: the query rewriters of                         *)
(* src/searchbetter/rewriter.py and the whoosh-backed search engines of    *)
(* src/search.py.                                                          *)
(*                                                                         *)
(* The program is Python 2.  A Python string value is modelled as a record *)
(* [kind, cs]: kind is "str" (a byte string, cs its bytes) or "unicode"    *)
(* (cs its code points).  String operations are computed on cs.            *)
(***************************************************************************)
EXTENDS Integers, Sequences, FiniteSets, TLC

VARIABLES
    \* ---- rewriter.py ----
    vocabN,      \* Word2VecRewriter.model: the size of its vocabulary
    strategy,    \* class of the rewriter of the last rewrite call
    term,        \* argument of the last rewrite call
    response,    \* what the taxonomy service answered in that call
    outcome,     \* "none", "returned" or "raised"
    result,      \* the list rewrite returned
    calls,       \* number of rewrite calls made
    \* ---- search.py ----
    engine,      \* class of the search engine
    committed,   \* documents committed in the index at engine.INDEX_PATH
    exists,      \* an index exists at engine.INDEX_PATH
    writerOpen,  \* a writer holds the write lock of that index
    pending,     \* documents queued in the writer that holds the lock
    session,     \* last write session: "none","committed","aborted","open"
    preSession,  \* committed documents when the last write session began
    queued,      \* documents the last write session queued
    failed,      \* the try block of the last create_index raised
    rows,        \* the dataset rows the last create_index read
    built,       \* "none", "created", "loaded": self.index is set
    creates,     \* number of constructor calls made
    query,       \* argument of the last search call
    hits,        \* the list the last search call returned
    matched,     \* hits the expansion pipeline merged, before the merge
    merged       \* the list the last pipeline search returned

rewriterVars == <<vocabN, strategy, term, response, outcome, result, calls>>
indexVars == <<engine, committed, exists, writerOpen, pending, session,
               preSession, queued, failed, rows, built, creates>>
searchVars == <<query, hits>>
pipelineVars == <<matched, merged>>
vars == <<rewriterVars, indexVars, searchVars, pipelineVars>>

-----------------------------------------------------------------------------
(* Bounds *)

MaxVocab == 12
MaxCalls == 2
MaxRows == 11
MaxCreates == 2
MaxPipelineRows == 3

-----------------------------------------------------------------------------
(* Python 2 strings *)

Lowers == "abcdefghijklmnopqrstuvwxyz"
Uppers == "ABCDEFGHIJKLMNOPQRSTUVWXYZ"
Digits == "0123456789"

IndexIn(c, s) == CHOOSE i \in 1..Len(s) : SubSeq(s, i, i) = c
IsIn(c, s) == \E i \in 1..Len(s) : SubSeq(s, i, i) = c

\* the ASCII code of a one-character string
Ord(c) ==
    IF c = " " THEN 32
    ELSE IF c = ":" THEN 58
    ELSE IF IsIn(c, Digits) THEN 47 + IndexIn(c, Digits)
    ELSE IF IsIn(c, Uppers) THEN 64 + IndexIn(c, Uppers)
    ELSE 96 + IndexIn(c, Lowers)

\* the bytes of an ASCII literal
Codes(s) == [i \in 1..Len(s) |-> Ord(SubSeq(s, i, i))]

Str(cs) == [kind |-> "str", cs |-> cs]
Uni(cs) == [kind |-> "unicode", cs |-> cs]

IsAscii(cs) == \A i \in 1..Len(cs) : cs[i] < 128

\* a == b on two Python 2 strings: a str and a unicode compare equal only
\* when the str decodes as ASCII to the same text
PyEq(a, b) ==
    IF a.kind = b.kind THEN a.cs = b.cs
    ELSE a.cs = b.cs /\ IsAscii(a.cs)

\* x.lower() of a byte string
LowerCs(cs) ==
    [i \in 1..Len(cs) |-> IF cs[i] >= 65 /\ cs[i] <= 90 THEN cs[i] + 32 ELSE cs[i]]

StartsAt(cs, i, d) ==
    /\ i + Len(d) - 1 <= Len(cs)
    /\ \A j \in 1..Len(d) : cs[i + j - 1] = d[j]

\* d in x
Contains(cs, d) ==
    LET n == Len(cs)
        m == Len(d)
    IN  \E i \in 1..(n - m + 1) : \A j \in 1..m : cs[i + j - 1] = d[j]

RECURSIVE ReplaceFrom(_, _, _)
ReplaceFrom(cs, i, d) ==
    IF i > Len(cs) THEN << >>
    ELSE IF Len(d) > 0 /\ StartsAt(cs, i, d) THEN ReplaceFrom(cs, i + Len(d), d)
    ELSE <<cs[i]>> \o ReplaceFrom(cs, i + 1, d)

\* x.replace(d, ''): the occurrences of d, found left to right, removed
Replace(cs, d) == ReplaceFrom(cs, 1, d)

\* x.split(d)[-1]: what follows the last occurrence of d
SplitLast(cs, d) ==
    LET at == {i \in 1..Len(cs) : StartsAt(cs, i, d)}
    IN  IF at = {} THEN cs
        ELSE LET last == CHOOSE i \in at : \A j \in at : j <= i
             IN  SubSeq(cs, last + Len(d), Len(cs))

IsCont(b) == b >= 128 /\ b <= 191

RECURSIVE Utf8From(_, _)
\* the code points of bytes cs[i..], or <<-1>> at the first malformed sequence
Utf8From(cs, i) ==
    IF i > Len(cs) THEN << >>
    ELSE LET b == cs[i]
             n == IF b < 128 THEN 1
                  ELSE IF b >= 194 /\ b <= 223 THEN 2
                  ELSE IF b >= 224 /\ b <= 239 THEN 3
                  ELSE IF b >= 240 /\ b <= 244 THEN 4
                  ELSE 0
             wellFormed == /\ n > 0
                           /\ i + n - 1 <= Len(cs)
                           /\ \A k \in 1..(n - 1) : IsCont(cs[i + k])
             cp == IF n = 1 THEN b
                   ELSE IF n = 2 THEN (b - 192) * 64 + (cs[i + 1] - 128)
                   ELSE IF n = 3 THEN (b - 224) * 4096 + (cs[i + 1] - 128) * 64
                                      + (cs[i + 2] - 128)
                   ELSE (b - 240) * 262144 + (cs[i + 1] - 128) * 4096
                        + (cs[i + 2] - 128) * 64 + (cs[i + 3] - 128)
             shortest == \/ n = 1
                         \/ n = 2
                         \/ n = 3 /\ cp >= 2048
                         \/ n = 4 /\ cp >= 65536 /\ cp <= 1114111
         IN  IF ~wellFormed THEN <<-1>>
             ELSE IF ~shortest THEN <<-1>>
             ELSE LET rest == Utf8From(cs, i + n)
                  IN  IF rest = <<-1>> THEN <<-1>> ELSE <<cp>> \o rest

\* x.decode("utf8"): [ok, value].  A unicode x is first encoded with the
\* default codec, ascii, which fails on any code point above 127.
Decode(x) ==
    IF x.kind = "unicode"
    THEN IF IsAscii(x.cs) THEN [ok |-> TRUE, value |-> Uni(x.cs)]
         ELSE [ok |-> FALSE, value |-> Uni(<< >>)]
    ELSE LET cps == Utf8From(x.cs, 1)
         IN  IF cps = <<-1>> THEN [ok |-> FALSE, value |-> Uni(<< >>)]
             ELSE [ok |-> TRUE, value |-> Uni(cps)]

-----------------------------------------------------------------------------
(* rewriter.py *)

ControlRewriteDecodes(t) == [outcome |-> "returned", result |-> <<Decode(t).value>>]

\* ControlRewriter.rewrite
ControlRewrite(t) == [outcome |-> "returned", result |-> <<t>>]

CategoryPrefix == Codes("Category:")

\* WikipediaRewriter.clean_category
clean_category(x) == Str(Replace(x.cs, CategoryPrefix))

\* the list dropwords of WikipediaRewriter.rewrite, before the term is appended
dropwords ==
    << Str(Codes("articles")), Str(Codes("wikipedia")), Str(Codes("accuracy")),
       Str(Codes("articles")), Str(Codes("statements")), Str(Codes("magic")),
       Str(Codes("pages")), Str(Codes("authors")), Str(Codes("editors")),
       Str(Codes("appearances")), Str(Codes("redirects")), Str(Codes("cs1")) >>

\* any(d in w.lower() for d in dropwords), the term being the last dropword
Dropped(w, t) ==
    LET ds == Append(dropwords, t)
        low == LowerCs(w.cs)
    IN  \E k \in 1..Len(ds) : Contains(low, ds[k].cs)

RECURSIVE Kept(_, _)
\* [w.split('Category:')[-1].lower() for w in ws if not any(...)]
Kept(ws, t) ==
    IF ws = << >> THEN << >>
    ELSE LET w == Head(ws)
             rest == Kept(Tail(ws), t)
         IN  IF Dropped(w, t) THEN rest
             ELSE <<Str(LowerCs(SplitLast(w.cs, CategoryPrefix)))>> \o rest

\* WikipediaRewriter.rewrite: requests.get and etree.fromstring raise on a
\* failed call and on a response that is not XML, and nothing catches it
WikipediaRewrite(t, resp) ==
    IF resp.status # "ok" THEN [outcome |-> "raised", result |-> << >>]
    ELSE LET wikipedia_results ==
                 [i \in 1..Len(resp.titles) |-> clean_category(resp.titles[i])]
         IN  [outcome |-> "returned",
              result |-> Kept(wikipedia_results, t) \o <<t>>]

TopN == 10

\* the i-th word of the vocabulary of the Word2Vec model
Word(i) == Uni(<<96 + i>>)

\* self.model.vocab lookup: the index of the word, 0 when it is not known
VocabIndex(n, t) ==
    IF \E i \in 1..n : PyEq(Word(i), t)
    THEN CHOOSE i \in 1..n : PyEq(Word(i), t)
    ELSE 0

\* all words but the i-th with their similarity to it, most similar first
Ranked(n, i) ==
    [k \in 1..(n - 1) |-> <<Word(((i - 1 + k) % n) + 1), 100 - ((k + 1) \div 2)>>]

\* self.model.similar_by_word(term, topn): the topn most similar words
similar_by_word(n, i, topn) ==
    LET all == Ranked(n, i)
    IN  SubSeq(all, 1, IF Len(all) < topn THEN Len(all) ELSE topn)

\* the try block of Word2VecRewriter.rewrite; KeyError leaves []
cleaned_results(n, t) ==
    LET i == VocabIndex(n, t)
    IN  IF i = 0 THEN << >>
        ELSE LET raw_results == similar_by_word(n, i, TopN)
             IN  [k \in 1..Len(raw_results) |-> raw_results[k][1]]

\* Word2VecRewriter.rewrite: term.decode("utf8") is outside the try block
Word2VecRewrite(n, t) ==
    LET d == Decode(t)
    IN  IF ~d.ok THEN [outcome |-> "raised", result |-> << >>]
        ELSE [outcome |-> "returned",
              result |-> cleaned_results(n, t) \o <<d.value>>]

-----------------------------------------------------------------------------
(* The inputs of the rewriters *)

Terms ==
    { Str(Codes("physics")), Str(Codes("Physics")), Str(Codes("a")),
      Uni(Codes("b")), Str(Codes("zz")),
      Str(<<195, 169>>),     \* the UTF-8 bytes of e-acute
      Uni(<<233>>),          \* e-acute as a unicode string
      Str(<<255>>) }         \* not UTF-8

\* the category links of a page, in the order the service lists them
Titles ==
    << Str(Codes("Category:Physics stubs")), Str(Codes("Category:Mechanics")),
       Str(Codes("Category:Physics")),
       Str(Codes("Category:All articles with unsourced statements")),
       Str(Codes("Category:Optics Category:Light")) >>

RECURSIVE SubSeqs(_)
\* the lists made of some of the elements of s, in the order of s
SubSeqs(s) ==
    IF s = << >> THEN {<< >>}
    ELSE LET rest == SubSeqs(Tail(s))
         IN  rest \cup {<<Head(s)>> \o r : r \in rest}

NoResponse == [status |-> "none", titles |-> << >>]

Responses ==
    { [status |-> "http_error", titles |-> << >>],
      [status |-> "bad_xml", titles |-> << >>] }
    \cup { [status |-> "ok", titles |-> ts] : ts \in SubSeqs(Titles) }

\* WikipediaRewriter.rewrite, tabulated over the inputs
WikipediaRewriteOf == [t \in Terms, resp \in Responses |-> WikipediaRewrite(t, resp)]

-----------------------------------------------------------------------------
(* search.py: the datasets *)

Engines == {"udacity", "harvardx", "edx"}

Topics == <<Codes("physics"), Codes("mechanics"), Codes("optics")>>
Categories == <<"problem", "html", "video", "course">>

\* The i-th record of the datasets.  Two consecutive records share an
\* identifier, as the resources of one course do in the HarvardX file.
Record ==
    [ i \in 1..MaxRows |->
        [ id |-> (i + 1) \div 2,
          name |-> i,
          words |-> { Codes("basics"), Topics[(i % 3) + 1], Topics[((i + 1) % 3) + 1],
                      IF i % 2 = 0 THEN Codes("b") ELSE Codes("c") },
          tf |-> 1 + (i % 3),
          category |-> Categories[(i % 4) + 1] ] ]

\* ok = FALSE: writing the record raises (a missing key, bytes that are not
\* UTF-8, a value add_document refuses)
Row(i, bad) ==
    [ id |-> Record[i].id, name |-> Record[i].name, words |-> Record[i].words,
      tf |-> Record[i].tf, category |-> Record[i].category, ok |-> (i # bad) ]

\* a dataset of n records, the bad-th of which cannot be written (0: none)
Dataset(n, bad) == [i \in 1..n |-> Row(i, bad)]

\* the keyword arguments of writer.add_document: the category is not one
Doc(row) == [id |-> row.id, name |-> row.name, words |-> row.words, tf |-> row.tf]

-----------------------------------------------------------------------------
(* search.py: whoosh's writer, as the engines use it *)

\* index.writer() on an index whose write lock is free
NewWriter(docs) ==
    [status |-> "open", committed |-> docs, pending |-> << >>, locked |-> TRUE]

\* writer.commit(): all queued documents, or none when persisting fails
Commit(w, fails) ==
    IF w.status # "open" THEN w
    ELSE IF fails
    THEN [w EXCEPT !.status = "aborted", !.pending = << >>, !.locked = FALSE]
    ELSE [w EXCEPT !.status = "committed", !.committed = w.committed \o w.pending,
                   !.pending = << >>, !.locked = FALSE]

\* writer.cancel(): safe on a writer that is no longer open
Cancel(w) ==
    IF w.status # "open" THEN w
    ELSE [w EXCEPT !.status = "aborted", !.pending = << >>, !.locked = FALSE]

supported_categories == {"problem", "video", "course"}

\* HarvardXSearchEngine.create_index, `if row['category'] not in
\* supported_categories: pass`: the row goes on to add_document either way
Written(e, row) ==
    IF e = "harvardx" /\ row.category \notin supported_categories
    THEN TRUE
    ELSE TRUE

RECURSIVE AddRows(_, _, _)
\* the for loop over the dataset: [writer, raised]
AddRows(e, w, data) ==
    IF data = << >> THEN [writer |-> w, raised |-> FALSE]
    ELSE LET row == Head(data)
         IN  IF ~Written(e, row) THEN AddRows(e, w, Tail(data))
             ELSE IF ~row.ok THEN [writer |-> w, raised |-> TRUE]
             ELSE AddRows(e, [w EXCEPT !.pending = Append(w.pending, Doc(row))],
                          Tail(data))

\* the except block: only the CSV engines cancel the writer
OnExceptionCommits(e, w) == Commit(w, FALSE)
OnException(e, w) == IF e = "udacity" THEN w ELSE Cancel(w)

\* the try block of create_index and its except block, from a writer
WriteSession(e, w0, data, commitFails) ==
    LET added == AddRows(e, w0, data)
        tried == IF added.raised THEN added.writer
                 ELSE Commit(added.writer, commitFails)
        raised == added.raised \/ commitFails
    IN  [ writer |-> IF raised THEN OnException(e, tried) ELSE tried,
          queued |-> added.writer.pending,
          raised |-> raised ]

\* create_index: [returned, committed, writerOpen, pending, session,
\* preSession, queued, failed].  create_in leaves a new, empty index at INDEX_PATH;
\* index.writer() raises LockError while another writer holds the lock, inside
\* the try block for Udacity and outside it for the CSV engines.
create_index(e, locked, held, data, commitFails) ==
    IF locked
    THEN [ returned |-> (e = "udacity"), committed |-> << >>,
           writerOpen |-> TRUE, pending |-> held, session |-> "none",
           preSession |-> << >>, queued |-> << >>, failed |-> TRUE ]
    ELSE LET s == WriteSession(e, NewWriter(<< >>), data, commitFails)
         IN  [ returned |-> TRUE, committed |-> s.writer.committed,
               writerOpen |-> s.writer.locked, pending |-> s.writer.pending,
               session |-> s.writer.status, preSession |-> << >>,
               queued |-> s.queued, failed |-> s.raised ]

-----------------------------------------------------------------------------
(* search.py: SearchEngine.search *)

SearchLimit == 10

RECURSIVE TokensFrom(_, _, _)
TokensFrom(cs, i, word) ==
    IF i > Len(cs) THEN (IF word = << >> THEN {} ELSE {word})
    ELSE IF cs[i] = 32
    THEN (IF word = << >> THEN {} ELSE {word}) \cup TokensFrom(cs, i + 1, << >>)
    ELSE TokensFrom(cs, i + 1, Append(word, cs[i]))

\* self.parser.parse(query_string): the lower-cased words of the text, each
\* of which a document must hold in one of the search fields
Parse(q) == TokensFrom(LowerCs(q.cs), 1, << >>)

Matches(doc, parsed) == parsed # {} /\ parsed \subseteq doc.words

\* d ranks before e: the higher score, then the lower document number
Before(docs, d, e) ==
    \/ docs[d].tf > docs[e].tf
    \/ docs[d].tf = docs[e].tf /\ d <= e

RECURSIVE RankFrom(_, _)
RankFrom(docs, S) ==
    IF S = {} THEN << >>
    ELSE LET best == CHOOSE d \in S : \A e \in S : Before(docs, d, e)
         IN  <<best>> \o RankFrom(docs, S \ {best})

\* searcher.search(query_obj): the document numbers of the hits in rank
\* order; whoosh's limit parameter, left at its default, keeps the first 10
searcher_search(docs, parsed) ==
    LET ranked == RankFrom(docs, {d \in 1..Len(docs) : Matches(docs[d], parsed)})
    IN  SubSeq(ranked, 1, IF Len(ranked) < SearchLimit THEN Len(ranked) ELSE SearchLimit)

\* hit.fields(): the stored fields of a document
Fields(doc) == [id |-> doc.id, name |-> doc.name]

\* SearchEngine.search
searchDropsLast(docs, q) ==
    LET results == searcher_search(docs, Parse(q))
    IN  [k \in 1..(Len(results) - 1) |-> Fields(docs[results[k]])]
search(docs, q) ==
    LET results == searcher_search(docs, Parse(q))
    IN  [k \in 1..Len(results) |-> Fields(docs[results[k]])]

Queries ==
    { Str(Codes("basics")), Str(Codes("Physics")), Str(Codes("physics mechanics")),
      Uni(Codes("optics")), Str(Codes("cooking")), Str(Codes("")) }

-----------------------------------------------------------------------------
(* The expansion pipeline *)

RECURSIVE Concat(_)
Concat(lists) == IF lists = << >> THEN << >> ELSE Head(lists) \o Concat(Tail(lists))

RECURSIVE MergeFrom(_, _)
MergeFrom(docs, seen) ==
    IF docs = << >> THEN << >>
    ELSE IF Head(docs).id \in seen THEN MergeFrom(Tail(docs), seen)
    ELSE <<Head(docs)>> \o MergeFrom(Tail(docs), seen \cup {Head(docs).id})

\* merge: the per-term results concatenated, a document whose stored
\* identifier was already seen removed
MergeKeepsAll(lists) == Concat(lists)
Merge(lists) == MergeFrom(Concat(lists), {})

PipelineResponses ==
    { [status |-> "http_error", titles |-> << >>],
      [status |-> "ok", titles |-> <<Titles[2], Titles[5]>>],
      [status |-> "ok", titles |-> <<Titles[1], Titles[3]>>] }

Strategies == {"control", "wikipedia", "word2vec"}

\* rewriter.rewrite(term) of the rewriter of class s
Rewrite(s, n, t, resp) ==
    IF s = "control" THEN ControlRewrite(t)
    ELSE IF s = "wikipedia" THEN WikipediaRewriteOf[t, resp]
    ELSE Word2VecRewrite(n, t)

-----------------------------------------------------------------------------
(* States and actions *)

IdleRewriter ==
    /\ strategy = "none"
    /\ term = Str(<< >>)
    /\ response = NoResponse
    /\ outcome = "none"
    /\ result = << >>
    /\ calls = 0

IdleIndex ==
    /\ committed = << >>
    /\ exists = FALSE
    /\ writerOpen = FALSE
    /\ pending = << >>
    /\ session = "none"
    /\ preSession = << >>
    /\ queued = << >>
    /\ failed = FALSE
    /\ rows = << >>
    /\ built = "none"
    /\ creates = 0

IdleSearch ==
    /\ query = Str(<< >>)
    /\ hits = << >>
    /\ matched = << >>
    /\ merged = << >>

\* a rewrite call of a rewriter of class s
Called(s, t, resp) ==
    LET r == Rewrite(s, vocabN, t, resp)
    IN  /\ calls < MaxCalls
        /\ strategy' = s
        /\ term' = t
        /\ response' = resp
        /\ outcome' = r.outcome
        /\ result' = r.result
        /\ calls' = calls + 1
        /\ UNCHANGED vocabN

RewriteControl ==
    /\ \E t \in Terms : Called("control", t, NoResponse)
    /\ UNCHANGED <<indexVars, searchVars, pipelineVars>>

RewriteWikipedia ==
    /\ \E t \in Terms, resp \in Responses : Called("wikipedia", t, resp)
    /\ UNCHANGED <<indexVars, searchVars, pipelineVars>>

RewriteWord2Vec ==
    /\ \E t \in Terms : Called("word2vec", t, NoResponse)
    /\ UNCHANGED <<indexVars, searchVars, pipelineVars>>

\* SearchEngine.__init__ with create=True, on a dataset of one of these sizes
CreateWith(sizes) ==
    /\ creates < MaxCreates
    /\ \E n \in sizes, commitFails \in BOOLEAN :
         \E bad \in 0..n :
            LET data == Dataset(n, bad)
                r == create_index(engine, writerOpen, pending, data, commitFails)
            IN  /\ exists' = TRUE
                /\ committed' = r.committed
                /\ writerOpen' = r.writerOpen
                /\ pending' = r.pending
                /\ session' = r.session
                /\ preSession' = r.preSession
                /\ queued' = r.queued
                /\ failed' = r.failed
                /\ rows' = data
                /\ built' = IF r.returned THEN "created" ELSE built
    /\ creates' = creates + 1
    /\ query' = Str(<< >>)
    /\ hits' = << >>
    /\ matched' = << >>
    /\ merged' = << >>
    /\ UNCHANGED <<engine, rewriterVars>>

CreateEngine == CreateWith({0, 1, 2, MaxRows})

\* the engine a pipeline searches is built before the pipeline is used
CreateSmallEngine == calls = 0 /\ CreateWith({0, MaxPipelineRows})

\* SearchEngine.__init__ with create=False: open_dir raises when INDEX_PATH
\* holds no index
LoadEngine ==
    /\ creates < MaxCreates
    /\ creates' = creates + 1
    /\ built' = IF exists THEN "loaded" ELSE built
    /\ query' = Str(<< >>)
    /\ hits' = << >>
    /\ matched' = << >>
    /\ merged' = << >>
    /\ UNCHANGED <<engine, committed, exists, writerOpen, pending, session,
                   preSession, queued, failed, rows, rewriterVars>>

\* SearchEngine.search
Search ==
    /\ built # "none"
    /\ \E q \in Queries :
         /\ query' = q
         /\ hits' = search(committed, q)
    /\ UNCHANGED <<indexVars, rewriterVars, pipelineVars>>

\* the expansion pipeline's search: rewrite the term, search every term,
\* merge.  An exception of rewrite ends the call without a result.
PipelineSearch ==
    /\ built # "none"
    /\ \E s \in Strategies, t \in Terms, resp \in PipelineResponses :
         /\ (s = "wikipedia" \/ resp.status = "http_error")
         /\ Called(s, t, IF s = "wikipedia" THEN resp ELSE NoResponse)
         /\ LET r == Rewrite(s, vocabN, t, resp)
                lists == [k \in 1..Len(r.result) |-> search(committed, r.result[k])]
            IN  /\ matched' = lists
                /\ merged' = Merge(lists)
    /\ UNCHANGED <<indexVars, searchVars>>

InitRewrite ==
    /\ vocabN \in {0, 1, 3, MaxVocab}
    /\ IdleRewriter
    /\ engine = "udacity"
    /\ IdleIndex
    /\ IdleSearch

NextRewrite == RewriteControl \/ RewriteWikipedia \/ RewriteWord2Vec

SpecRewrite == InitRewrite /\ [][NextRewrite]_vars

InitIndex ==
    /\ vocabN = 0
    /\ IdleRewriter
    /\ engine \in Engines
    /\ IdleIndex
    /\ IdleSearch

NextIndex == CreateEngine \/ LoadEngine \/ Search

SpecIndex == InitIndex /\ [][NextIndex]_vars

InitPipeline ==
    /\ vocabN = MaxVocab
    /\ IdleRewriter
    /\ engine \in Engines
    /\ IdleIndex
    /\ IdleSearch

NextPipeline == CreateSmallEngine \/ PipelineSearch

SpecPipeline == InitPipeline /\ [][NextPipeline]_vars

Init == InitRewrite \/ InitIndex \/ InitPipeline

Next == NextRewrite \/ NextIndex \/ NextPipeline

Spec == Init /\ [][Next]_vars

-----------------------------------------------------------------------------
(* Properties of the rewriters, under SpecRewrite *)

Last(s) == s[Len(s)]

\* C1: whenever rewrite returns, the list it returns holds the original term
\* exactly once, as its last element.
C1_OriginalTermOnceLast ==
    outcome = "returned" =>
        /\ Len(result) >= 1
        /\ PyEq(Last(result), term)
        /\ \A k \in 1..(Len(result) - 1) : ~PyEq(result[k], term)

\* C2: rewrite never fails its caller: every call returns, and the list it
\* returns holds at least the original term.
C2_RewriteNeverFails ==
    outcome # "none" =>
        /\ outcome = "returned"
        /\ \E k \in 1..Len(result) : PyEq(result[k], term)

\* the label of a category title: the 'Category:' prefix stripped, lowercased
C3_Label(title) ==
    LET cs == title.cs
        n == Len(CategoryPrefix)
    IN  Str(LowerCs(IF StartsAt(cs, 1, CategoryPrefix) THEN SubSeq(cs, n + 1, Len(cs))
                    ELSE cs))

C3_Discarded(label, t) ==
    \/ \E k \in 1..Len(dropwords) : Contains(label.cs, dropwords[k].cs)
    \/ label.cs = LowerCs(t.cs)

RECURSIVE C3_Expansions(_, _)
C3_Expansions(titles, t) ==
    IF titles = << >> THEN << >>
    ELSE LET label == C3_Label(Head(titles))
             rest == C3_Expansions(Tail(titles), t)
         IN  IF C3_Discarded(label, t) THEN rest ELSE <<label>> \o rest

\* C3: for every list of category titles the service answers, the taxonomy
\* rewrite returns the labels (prefix stripped, lowercased) in service order,
\* without those that hold a dropword or equal the term whatever the case of
\* the term, followed by the original term.
C3_WikipediaResult ==
    (strategy = "wikipedia" /\ response.status = "ok") =>
        /\ outcome = "returned"
        /\ result = C3_Expansions(response.titles, term) \o <<term>>

\* C5: the embedding rewrite returns at most 10 neighbours in the model's
\* order of non-increasing similarity and then the original term; for a term
\* that is not in the vocabulary it returns the original term alone, and no
\* error reaches the caller.
C5_Word2VecResult ==
    strategy = "word2vec" =>
        /\ outcome = "returned"
        /\ Len(result) >= 1
        /\ PyEq(Last(result), term)
        /\ LET i == VocabIndex(vocabN, term)
               neighbours == Len(result) - 1
           IN  IF i = 0 THEN neighbours = 0
               ELSE /\ neighbours <= TopN
                    /\ neighbours = IF vocabN - 1 < TopN THEN vocabN - 1 ELSE TopN
                    /\ \A k \in 1..neighbours : result[k] = Ranked(vocabN, i)[k][1]
                    /\ \A k \in 1..(neighbours - 1) :
                         Ranked(vocabN, i)[k][2] >= Ranked(vocabN, i)[k + 1][2]

\* C8: the control rewrite of t returns the list [t], whatever calls came
\* before it.
C8_ControlIdentity ==
    strategy = "control" => (outcome = "returned" /\ result = <<term>>)

C8_Witness ==
    /\ strategy = "control"
    /\ calls > 1
    /\ term = Str(<<195, 169>>)
    /\ result = <<term>>

-----------------------------------------------------------------------------
(* Properties of the search engines, under SpecIndex *)

\* C4: a write session of create_index is atomic: the committed documents
\* are those of before the session, followed by all the documents the session
\* queued or by none of them, and by none of them when the session failed.
C4_AtomicSession ==
    /\ committed = preSession \/ committed = preSession \o queued
    /\ failed => committed = preSession
    /\ session = "committed" => committed = preSession \o queued

C4_Witness ==
    /\ failed
    /\ Len(queued) >= 2
    /\ Len(queued) < Len(rows)
    /\ committed = preSession

\* C9: no write session is left open when create_index has returned: the
\* write lock of the index is free, and the session ended committed or
\* aborted.
C9_NoSessionLeftOpen ==
    /\ ~writerOpen
    /\ session \in {"none", "committed", "aborted"}

RECURSIVE C10_Supported(_)
C10_Supported(data) ==
    IF data = << >> THEN << >>
    ELSE IF Head(data).category \in supported_categories
    THEN <<Doc(Head(data))>> \o C10_Supported(Tail(data))
    ELSE C10_Supported(Tail(data))

\* C10: after a successful create of the HarvardX index, the committed
\* documents are exactly the rows of a supported category.
C10_OnlySupportedCategories ==
    (engine = "harvardx" /\ session = "committed") =>
        committed = C10_Supported(rows)

C7_Matching == {d \in 1..Len(committed) : Matches(committed[d], Parse(query))}

\* the document number of the k-th hit (a stored name is that of one document)
C7_DocOf(k) == CHOOSE d \in 1..Len(committed) : Fields(committed[d]) = hits[k]

C7_InRankOrder ==
    /\ \A k \in 1..Len(hits) : \E d \in C7_Matching : Fields(committed[d]) = hits[k]
    /\ \A j, k \in 1..Len(hits) :
         j < k => /\ C7_DocOf(j) # C7_DocOf(k)
                  /\ Before(committed, C7_DocOf(j), C7_DocOf(k))

\* C7 as claimed: search returns one stored-field mapping per matching
\* document, in rank order, none dropped.
C7_AllMatchingReturned ==
    /\ Len(hits) = Cardinality(C7_Matching)
    /\ C7_InRankOrder

C7_TopHits ==
    /\ Len(hits) = IF Cardinality(C7_Matching) < SearchLimit
                   THEN Cardinality(C7_Matching) ELSE SearchLimit
    /\ C7_InRankOrder
    /\ \A d \in C7_Matching :
         \/ \E k \in 1..Len(hits) : C7_DocOf(k) = d
         \/ \A k \in 1..Len(hits) : Before(committed, C7_DocOf(k), d)

\* C7 as amended: search returns one stored-field mapping for each of the
\* 10 best ranked matching documents (all of them when at most 10 match), in
\* rank order, an empty list when nothing matches; and a search call (the
\* one step that is not a constructor call) leaves the index and the engine
\* as they were.
C7_TopHitsReturned ==
    /\ []C7_TopHits
    /\ [][creates' = creates => UNCHANGED indexVars]_vars

C7_Witness ==
    /\ built # "none"
    /\ query = Str(Codes("basics"))
    /\ Cardinality(C7_Matching) > SearchLimit
    /\ Len(hits) = SearchLimit

-----------------------------------------------------------------------------
(* Properties of the expansion pipeline, under SpecPipeline *)

C6_All == Concat(matched)

\* the first place of the identifier of the k-th merged document in C6_All
C6_First(k) ==
    CHOOSE p \in 1..Len(C6_All) :
        /\ C6_All[p].id = merged[k].id
        /\ \A r \in 1..(p - 1) : C6_All[r].id # merged[k].id

\* C6: the pipeline's result is the per-term search results, in the order of
\* the terms rewrite returned, with each stored identifier kept once, at the
\* place of its first occurrence.
C6_MergeFirstSeenOrder ==
    outcome = "returned" =>
        /\ Len(matched) = Len(result)
        /\ \A k \in 1..Len(result) : matched[k] = search(committed, result[k])
        /\ {C6_All[p].id : p \in 1..Len(C6_All)} = {merged[k].id : k \in 1..Len(merged)}
        /\ \A k \in 1..Len(merged) : merged[k] = C6_All[C6_First(k)]
        /\ \A j, k \in 1..Len(merged) : j < k => C6_First(j) < C6_First(k)

C6_Witness ==
    /\ outcome = "returned"
    /\ Len(result) >= 2
    /\ Len(merged) >= 2
    /\ Len(merged) < Len(C6_All)
    /\ \E k \in 1..Len(matched) : Len(matched[k]) >= 2

=============================================================================
